---- MODULE Spec2Model ----
(***************************************************************************)
(* Model of src/detector.py: the PlayerTracker (greedy nearest-centre      *)
(* association with a lost-frame counter) and the two passes of            *)
(* FootballPlayerDetector (identity discovery, then landmark extraction).  *)
(*                                                                         *)
(* Numbers.  Pixel coordinates are integers and every box used as input    *)
(* has even x1+x2 and y1+y2, so (x1 + x2) / 2 is exact.  Confidences are   *)
(* in hundredths (0.3 is 30).  cdist's Euclidean distance d is kept as its *)
(* square: ordering by d*d is ordering by d, and d < m is d*d < m*m for    *)
(* m >= 0.  NaN is the empty tuple and a number v is <<v>>, so that a      *)
(* missing field differs from every number, zero included.                *)
(***************************************************************************)
EXTENDS Integers, Sequences, FiniteSets, TLC

VARIABLES
    \* ---- one PlayerTracker instance (also FootballPlayerDetector.tracker)
    tracker,             \* [max_distance, max_frames_lost, tracks, next_id]
    sort_kind,           \* how this build's np.argsort orders equal distances
    result,              \* what the last update() call returned
    assignments,         \* the (det_idx, track_id) pairs of the last call
    detections,          \* the argument of the last update() call
    fresh,               \* the ids the last call allocated
    created,             \* history: every id allocated, in allocation order
    gone,                \* history: removed id -> [center, misses] at its removal
    revived,             \* history: id -> the lost-counter it had when the last call matched it
    \* ---- a second, independent PlayerTracker instance fed the same lists
    trackerB,
    feed,                \* the lists given to the first instance so far
    outsA,               \* what the first instance returned, call by call
    outsB,               \* what the second instance returned, call by call
    \* ---- FootballPlayerDetector and its two passes
    pc,
    detected_player_ids,
    player_counts,
    video,               \* the frames the decoder has yielded (their content)
    decoded1,            \* frames cap.read() delivered in pass 1
    p1_results,          \* tracked_players of each pass-1 frame
    selected_player_ids,
    csv_data,
    frame_count,
    player_usage_count,
    decoded2,            \* frames cap.read() delivered in pass 2
    p2_results,          \* tracked_players of each pass-2 frame
    candidate_players,   \* candidate_players of the last completed frame
    best_player_id,      \* best_player_id of the last completed frame (0: None)
    pose_calls,          \* the track ids self.pose_model ran for in the last frame
    p1_fault,            \* what went wrong in pass 1, "none" if nothing
    p2_fault,            \* what went wrong in pass 2, "none" if nothing
    csv_file,            \* the table df.to_csv wrote, if it did
    returned,            \* what process_video_second_pass returned, if it did
    \* ---- one call of filter_players_in_field, and a second call on its result
    field_shape,         \* frame_shape, the (height, width) of the frame
    person_detections,   \* the list given to the filter
    filtered_detections, \* what the filter returned for it
    refiltered_detections \* what the filter returned for filtered_detections

trackerVars ==
    <<tracker, sort_kind, result, assignments, detections, fresh, created, gone,
      revived>>
twinVars == <<trackerB, feed, outsA, outsB>>
pipeVars == <<pc, detected_player_ids, player_counts, video, decoded1, p1_results,
              selected_player_ids, csv_data, frame_count, player_usage_count,
              decoded2, p2_results, candidate_players, best_player_id, pose_calls,
              p1_fault, p2_fault, csv_file, returned>>
filterVars ==
    <<field_shape, person_detections, filtered_detections, refiltered_detections>>
vars == <<trackerVars, twinVars, pipeVars, filterVars>>

-----------------------------------------------------------------------------
(* Bounds of the model *)

MaxDets == 2          \* detections in one update() call of the tracker runs
MaxFramesLost == 2    \* max_frames_lost of the tracker runs is in 0..MaxFramesLost
MaxTracks == 3        \* ids one tracker run may allocate
MaxFeed == 2          \* update() calls of the two-instance run
MaxFrames == 2        \* frames of the video in the two passes
MaxSelected == 2      \* size of the candidate set

(* Program constants *)

DefaultMaxDistance == 80     \* PlayerTracker(max_distance=80, ...)
DefaultMaxFramesLost == 15   \* PlayerTracker(..., max_frames_lost=15)
NumKeypoints == 17
Margin == 20
PoseThreshold == 30          \* kp_conf > 0.3

-----------------------------------------------------------------------------
(* Small helpers *)

Min(a, b) == IF a < b THEN a ELSE b
Max(a, b) == IF a > b THEN a ELSE b

Range(s) == {s[i] : i \in 1..Len(s)}

\* the elements of a finite set of integers, ascending
Ascending(S) ==
    [k \in 1..Cardinality(S) |->
        CHOOSE i \in S : Cardinality({j \in S : j < i}) = k - 1]

\* all lists without repetition over S of length at most n
InjectiveLists(S, n) ==
    UNION {{s \in [1..k -> S] : \A i, j \in 1..k : i # j => s[i] # s[j]} : k \in 0..n}

\* dict assignment d[key] = value
Put(d, key, value) ==
    [k \in DOMAIN d \cup {key} |-> IF k = key THEN value ELSE d[k]]

\* del d[k] for every k in keys
Without(d, keys) == [k \in DOMAIN d \ keys |-> d[k]]

EmptyDict == [k \in {} |-> 0]

-----------------------------------------------------------------------------
(* PlayerTracker *)

PlayerTrackerInit(max_distance, max_frames_lost) ==
    [max_distance |-> max_distance,
     max_frames_lost |-> max_frames_lost,
     tracks |-> EmptyDict,
     next_id |-> 1]

Center(det) == <<(det[1] + det[3]) \div 2, (det[2] + det[4]) \div 2>>

BBox(det) == <<det[1], det[2], det[3], det[4]>>

\* square of the Euclidean distance cdist computes
SqDist(p, q) == (p[1] - q[1]) * (p[1] - q[1]) + (p[2] - q[2]) * (p[2] - q[2])

\* list(self.tracks.keys()): a dict lists its keys in insertion order, and keys
\* are only ever inserted at next_id, which only grows: ascending id order
TrackIds(tracks) == Ascending(DOMAIN tracks)

\* distances.ravel(): row-major, pair (det_idx, track_idx) at (det_idx-1)*nt + track_idx
FlatDistances(dets, tracks) ==
    LET ids == TrackIds(tracks)
        nt == Len(ids)
    IN [f \in 1..(Len(dets) * nt) |->
            SqDist(Center(dets[((f - 1) \div nt) + 1]),
                   tracks[ids[((f - 1) % nt) + 1]].center)]

\* np.argsort(flat): ascending distance.  The default kind is not a stable
\* sort, so the order of equal distances is the build's: "stable" keeps the
\* flat order (numpy's insertion sort of short arrays), "reverse" is the other
\* extreme (a vectorised sorting network may permute equal keys).
SortKinds == {"stable", "reverse"}

Before(flat, kind, i, j) ==
    \/ flat[i] < flat[j]
    \/ flat[i] = flat[j] /\ (IF kind = "stable" THEN i < j ELSE i > j)

ArgSort(flat, kind) ==
    [k \in 1..Len(flat) |->
        CHOOSE i \in 1..Len(flat) :
            Cardinality({j \in 1..Len(flat) : Before(flat, kind, j, i)}) = k - 1]

\* the distance compared with half of max_distance
WithinHalf(d2, max_distance) == 4 * d2 < max_distance * max_distance

\* a pair at exactly max_distance accepted too
WithinOrAt(d2, max_distance) == d2 <= max_distance * max_distance

\* the comparison the other way round
Beyond(d2, max_distance) == d2 > max_distance * max_distance

\* distances[det_idx, track_idx] < self.max_distance
Within(d2, max_distance) == d2 < max_distance * max_distance

NoAssignments ==
    [assignments |-> <<>>, assigned_detections |-> {}, assigned_tracks |-> {}]

\* the walk over the sorted pairs, from position k on
RECURSIVE Greedy(_, _, _, _, _, _)
Greedy(order, k, flat, ids, max_distance, acc) ==
    IF k > Len(order) THEN acc
    ELSE
        LET f == order[k]
            det_idx == ((f - 1) \div Len(ids)) + 1
            track_idx == ((f - 1) % Len(ids)) + 1
        IN \* det_idx and track_idx count from 1 here, from 0 in the source
           IF /\ det_idx \notin acc.assigned_detections
              /\ track_idx \notin acc.assigned_tracks
              /\ Within(flat[f], max_distance)
           THEN Greedy(order, k + 1, flat, ids, max_distance,
                    [assignments |-> Append(acc.assignments, <<det_idx, ids[track_idx]>>),
                     assigned_detections |-> acc.assigned_detections \cup {det_idx},
                     assigned_tracks |-> acc.assigned_tracks \cup {track_idx}])
           ELSE Greedy(order, k + 1, flat, ids, max_distance, acc)

\* an association that only tries the tracks seen in the previous call
AssociateSeenLastFrame(t, dets, kind) ==
    LET seen == [id \in {i \in DOMAIN t.tracks : t.tracks[i].frames_lost = 0} |->
                    t.tracks[id]]
    IN IF DOMAIN seen # {}
       THEN LET flat == FlatDistances(dets, seen)
            IN Greedy(ArgSort(flat, kind), 1, flat, TrackIds(seen), t.max_distance,
                      NoAssignments)
       ELSE NoAssignments

Associate(t, dets, kind) ==
    IF DOMAIN t.tracks # {}
    THEN LET flat == FlatDistances(dets, t.tracks)
         IN Greedy(ArgSort(flat, kind), 1, flat, TrackIds(t.tracks), t.max_distance,
                   NoAssignments)
    ELSE NoAssignments

TrackOf(det) ==
    [center |-> Center(det), bbox |-> BBox(det), frames_lost |-> 0, conf |-> det[5]]

\* the matched tracks updated without frames_lost = 0
UpdateMatchedKeepsCounter(tracks, dets, assigned, k) ==
    [id \in DOMAIN tracks |->
        IF \E a \in 1..Len(assigned) : assigned[a][2] = id
        THEN LET a == CHOOSE x \in 1..Len(assigned) : assigned[x][2] = id
             IN [TrackOf(dets[assigned[a][1]]) EXCEPT
                     !.frames_lost = tracks[id].frames_lost]
        ELSE tracks[id]]

\* the loop "for det_idx, track_id in assignments", from position k on
RECURSIVE UpdateMatched(_, _, _, _)
UpdateMatched(tracks, dets, assigned, k) ==
    IF k > Len(assigned) THEN tracks
    ELSE UpdateMatched(Put(tracks, assigned[k][2], TrackOf(dets[assigned[k][1]])),
                       dets, assigned, k + 1)

\* the key a new track is stored under
AllocIdByCount(t) == Cardinality(DOMAIN t.tracks) + 1
AllocIdShared(t) == t.next_id + Min(tracker.next_id, trackerB.next_id) - 1
AllocId(t) == t.next_id

\* the unassigned detections dropped instead of starting tracks
CreateTracksNever(st, dets, assigned_detections, det_idx) == st

\* the loop "for det_idx, detection in enumerate(detections)", from det_idx on;
\* st is [tracker, assignments, created]
RECURSIVE CreateTracks(_, _, _, _)
CreateTracks(st, dets, assigned_detections, det_idx) ==
    IF det_idx > Len(dets) THEN st
    ELSE IF det_idx \in assigned_detections
         THEN CreateTracks(st, dets, assigned_detections, det_idx + 1)
         ELSE LET id == AllocId(st.tracker)
              IN CreateTracks(
                    [tracker |-> [st.tracker EXCEPT
                                    !.tracks = Put(@, id, TrackOf(dets[det_idx])),
                                    !.next_id = @ + 1],
                     assignments |-> Append(st.assignments, <<det_idx, id>>),
                     created |-> Append(st.created, id)],
                    dets, assigned_detections, det_idx + 1)

\* self.tracks[track_id]['frames_lost'] += 1
AgedDrifts(track) ==
    [track EXCEPT !.frames_lost = @ + 1, !.center = <<@[1] + 1, @[2]>>]
AgedTwice(track) == [track EXCEPT !.frames_lost = @ + 2]
Aged(track) == [track EXCEPT !.frames_lost = @ + 1]

\* self.tracks[track_id]['frames_lost'] > self.max_frames_lost
ExpiredLate(t, track) == track.frames_lost > t.max_frames_lost + 1
Expired(t, track) == track.frames_lost > t.max_frames_lost

AgeAll(tracks, keep) ==
    [id \in DOMAIN tracks |-> IF id \in keep THEN tracks[id] ELSE Aged(tracks[id])]

DropExpiredNever(t) == t
DropExpired(t) ==
    [t EXCEPT !.tracks = Without(@, {id \in DOMAIN @ : Expired(t, @[id])})]

\* every track of the registry returned, in registry order
ResultOfAll(tracks, assigned) ==
    [k \in 1..Cardinality(DOMAIN tracks) |->
        <<TrackIds(tracks)[k]>> \o tracks[TrackIds(tracks)[k]].bbox
                               \o <<tracks[TrackIds(tracks)[k]].conf>>]

\* the list update() returns, built from the registry after the removals (every
\* assigned track has frames_lost 0 and max_frames_lost >= 0, so it is there)
ResultOf(tracks, assigned) ==
    [k \in 1..Len(assigned) |->
        <<assigned[k][2]>> \o tracks[assigned[k][2]].bbox
                           \o <<tracks[assigned[k][2]].conf>>]

\* no detections taken as the end of every track
UpdateEmptyForgets(t) ==
    [tracker |-> [t EXCEPT !.tracks = EmptyDict],
     result |-> <<>>, assignments |-> <<>>, created |-> <<>>]

\* update([]): every track ages by one call, the expired ones go, [] is returned
UpdateEmpty(t) ==
    [tracker |-> DropExpired([t EXCEPT !.tracks = AgeAll(@, {})]),
     result |-> <<>>, assignments |-> <<>>, created |-> <<>>]

\* update(detections): the tracker afterwards, what it returns, and the
\* assignments and allocations of the call
Update(t, dets, kind) ==
    IF dets = <<>>
    THEN UpdateEmpty(t)
    ELSE
        LET assoc == Associate(t, dets, kind)
            matched == [t EXCEPT !.tracks = UpdateMatched(@, dets, assoc.assignments, 1)]
            st == CreateTracks([tracker |-> matched,
                                assignments |-> assoc.assignments,
                                created |-> <<>>],
                               dets, assoc.assigned_detections, 1)
            hit == {st.assignments[k][2] : k \in 1..Len(st.assignments)}
            aged == [st.tracker EXCEPT !.tracks = AgeAll(@, hit)]
            after == DropExpired(aged)
        IN [tracker |-> after,
            result |-> ResultOf(after.tracks, st.assignments),
            assignments |-> st.assignments,
            created |-> st.created]

-----------------------------------------------------------------------------
(* FootballPlayerDetector: the detection filter and the pose of one player *)

NaN == <<>>
Num(v) == <<v>>
IsNa(field) == field = NaN

\* frame.shape[:2] of every frame of the video: (height, width)
FrameShape == <<480, 640>>

\* the boxes of class person (cls == 0), each as np.append(box, conf)
PersonDetections(objects) ==
    LET persons == SelectSeq(objects, LAMBDA o : o.cls = 0)
    IN [k \in 1..Len(persons) |-> persons[k].box \o <<persons[k].conf>>]

\* the three rules of filter_players_in_field on one detection, in exact
\* arithmetic: min*0.015 < h < min*0.35, 1.2 < h/w < 5.0, not center_y < height*0.05
\* (h > 0 once the first rule passed, so h/w with w <= 0 is infinite or negative)
\* the height bounds taken as inclusive
KeepsInclusive(det, frame_shape) ==
    LET bbox_width == det[3] - det[1]
        bbox_height == det[4] - det[2]
        m == Min(frame_shape[2], frame_shape[1])
    IN /\ m * 15 <= bbox_height * 1000
       /\ bbox_height * 100 <= m * 35
       /\ bbox_width > 0
       /\ 12 * bbox_width < 10 * bbox_height
       /\ bbox_height < 5 * bbox_width
       /\ ~((det[2] + det[4]) * 100 < frame_shape[1] * 10)

Keeps(det, frame_shape) ==
    LET bbox_width == det[3] - det[1]
        bbox_height == det[4] - det[2]
        m == Min(frame_shape[2], frame_shape[1])
    IN /\ m * 15 < bbox_height * 1000
       /\ bbox_height * 100 < m * 35
       /\ bbox_width > 0
       /\ 12 * bbox_width < 10 * bbox_height
       /\ bbox_height < 5 * bbox_width
       /\ ~((det[2] + det[4]) * 100 < frame_shape[1] * 10)

\* the rejected detections removed from the list while the loop walks it:
\* the element after a removed one is never looked at
RECURSIVE RemoveWhileWalking(_, _, _)
RemoveWhileWalking(dets, i, frame_shape) ==
    IF i > Len(dets) THEN dets
    ELSE IF Keeps(dets[i], frame_shape)
         THEN RemoveWhileWalking(dets, i + 1, frame_shape)
         ELSE RemoveWhileWalking(SubSeq(dets, 1, i - 1) \o SubSeq(dets, i + 1, Len(dets)),
                                 i + 1, frame_shape)

filter_removing_in_place(dets, frame_shape) == RemoveWhileWalking(dets, 1, frame_shape)

filter_players_in_field(dets, frame_shape) ==
    SelectSeq(dets, LAMBDA det : Keeps(det, frame_shape))

\* the expanded region of get_pose_for_player, clipped to the frame: (x1, y1, x2, y2)
Region(bbox, frame_shape) ==
    <<Max(0, bbox[1] - Margin), Max(0, bbox[2] - Margin),
      Min(frame_shape[2], bbox[3] + Margin), Min(frame_shape[1], bbox[4] + Margin)>>

\* player_region.size of frame[y1:y2, x1:x2] (bounds are >= 0 for the boxes used)
RegionSize(r) == Max(0, r[4] - r[2]) * Max(0, r[3] - r[1])

\* one keypoint (x, y, conf) of the pose model, in region coordinates, as
\* get_pose_for_player returns it
AdjustedFromThreshold(kp, r) ==
    IF kp[3] >= PoseThreshold
    THEN <<Num(kp[1] + r[1]), Num(kp[2] + r[2]), Num(kp[3])>>
    ELSE <<NaN, NaN, NaN>>

Adjusted(kp, r) ==
    IF kp[3] > PoseThreshold
    THEN <<Num(kp[1] + r[1]), Num(kp[2] + r[2]), Num(kp[3])>>
    ELSE <<NaN, NaN, NaN>>

NoPose == [i \in 1..NumKeypoints |-> <<NaN, NaN, NaN>>]

\* get_pose_for_player(frame, bbox): pose is what the pose model does on the
\* region ("raise", "nothing": no keypoints in its results, or "keypoints").
\* status "None" is the return value None, "raise" an exception of the model.
get_pose_for_player(frame_shape, bbox, pose) ==
    LET r == Region(bbox, frame_shape)
    IN IF RegionSize(r) = 0 THEN [status |-> "None", keypoints |-> <<>>]
       ELSE IF pose.kind = "raise" THEN [status |-> "raise", keypoints |-> <<>>]
       ELSE IF pose.kind = "nothing" THEN [status |-> "ok", keypoints |-> NoPose]
       ELSE [status |-> "ok",
             keypoints |-> [i \in 1..Len(pose.keypoints) |->
                                Adjusted(pose.keypoints[i], r)]]

\* valid_landmarks_count: keypoints with none of x, y, confidence NaN
ValidLandmarks(keypoints) ==
    Cardinality({i \in 1..Len(keypoints) :
        ~(IsNa(keypoints[i][1]) \/ IsNa(keypoints[i][2]) \/ IsNa(keypoints[i][3]))})

\* max(candidate_players.keys(), key=valid_count) over the dict in insertion
\* order (a sequence of [id, keypoints, valid_count]): the first of the maxima
BestPlayerLast(cands) == Len(cands)
BestPlayer(cands) ==
    CHOOSE i \in 1..Len(cands) :
        /\ \A j \in 1..Len(cands) : cands[j].valid_count <= cands[i].valid_count
        /\ \A j \in 1..(i - 1) : cands[j].valid_count < cands[i].valid_count

\* row_data of a frame: the frame number, then x, y, confidence of each keypoint
RECURSIVE Flatten(_)
Flatten(keypoints) ==
    IF keypoints = <<>> THEN <<>>
    ELSE <<keypoints[1][1], keypoints[1][2], keypoints[1][3]>> \o Flatten(Tail(keypoints))

RowDataFromOne(n, keypoints) == <<n + 1>> \o Flatten(keypoints)
RowData(n, keypoints) == <<n>> \o Flatten(keypoints)

-----------------------------------------------------------------------------
(* Values of the variables a run does not use *)

IdleTwin ==
    /\ trackerB = PlayerTrackerInit(DefaultMaxDistance, DefaultMaxFramesLost)
    /\ feed = <<>>
    /\ outsA = <<>>
    /\ outsB = <<>>

IdlePipe ==
    /\ pc = "idle"
    /\ detected_player_ids = {}
    /\ player_counts = <<>>
    /\ video = <<>>
    /\ decoded1 = 0
    /\ p1_results = <<>>
    /\ selected_player_ids = {}
    /\ csv_data = <<>>
    /\ frame_count = 0
    /\ player_usage_count = EmptyDict
    /\ decoded2 = 0
    /\ p2_results = <<>>
    /\ candidate_players = <<>>
    /\ best_player_id = 0
    /\ pose_calls = <<>>
    /\ p1_fault = "none"
    /\ p2_fault = "none"
    /\ csv_file = <<>>
    /\ returned = <<>>

IdleFilter ==
    /\ field_shape = FrameShape
    /\ person_detections = <<>>
    /\ filtered_detections = <<>>
    /\ refiltered_detections = <<>>

IdleHistory ==
    /\ result = <<>>
    /\ assignments = <<>>
    /\ detections = <<>>
    /\ fresh = <<>>
    /\ created = <<>>
    /\ gone = EmptyDict
    /\ revived = EmptyDict

-----------------------------------------------------------------------------
(* Runs of one PlayerTracker: any sequence of update() calls *)

\* detections (x1, y1, x2, y2, conf) of the tracker runs; centres (10,20),
\* (16,20), (20,20) and (210,20): 6, 10 and 4 pixels apart, and one far away
RunDets ==
    {<<0, 0, 20, 40, 50>>, <<6, 0, 26, 40, 60>>, <<10, 0, 30, 40, 70>>,
     <<200, 0, 220, 40, 80>>}

\* max_distance of the tracker runs: the two close centres at exactly this distance
RunDistances == {10}

Init ==
    /\ \E md \in RunDistances, mfl \in 0..MaxFramesLost :
            tracker = PlayerTrackerInit(md, mfl)
    /\ sort_kind \in SortKinds
    /\ IdleHistory
    /\ IdleTwin
    /\ IdlePipe
    /\ IdleFilter

\* the tracks a call removed, added to the history: the last known centre and
\* the number of consecutive calls the track had gone unmatched, this one included
GoneAfter(before, after) ==
    [id \in DOMAIN gone \cup (DOMAIN before \ DOMAIN after) |->
        IF id \in DOMAIN before
        THEN [center |-> before[id].center, misses |-> before[id].frames_lost + 1]
        ELSE gone[id]]

\* the tracks a call matched after a gap, with the length of the gap
RevivedBy(before, pairs) ==
    [id \in {i \in DOMAIN before : /\ before[i].frames_lost > 0
                                    /\ \E k \in DOMAIN pairs : pairs[k][2] = i} |->
        before[id].frames_lost]

\* one update() call on the tracker, with the histories kept
Track(dets) ==
    LET u == Update(tracker, dets, sort_kind)
    IN /\ tracker' = u.tracker
       /\ result' = u.result
       /\ assignments' = u.assignments
       /\ detections' = dets
       /\ fresh' = u.created
       /\ created' = created \o u.created
       /\ gone' = GoneAfter(tracker.tracks, u.tracker.tracks)
       /\ revived' = RevivedBy(tracker.tracks, u.assignments)

UpdateCall(dets) ==
    /\ Len(created) + Len(dets) <= MaxTracks
    /\ Track(dets)
    /\ UNCHANGED <<sort_kind, twinVars, pipeVars, filterVars>>

Next == \E dets \in InjectiveLists(RunDets, MaxDets) : UpdateCall(dets)

Spec == Init /\ [][Next]_vars

\* tracker runs with equal distances: centres (10,20) and (16,20), and (13,24),
\* which is 5 pixels from both
TieDets == {<<0, 0, 20, 40, 50>>, <<6, 0, 26, 40, 60>>, <<3, 4, 23, 44, 90>>}

NextTies == \E dets \in InjectiveLists(TieDets, MaxDets) : UpdateCall(dets)

SpecTies == Init /\ [][NextTies]_vars

-----------------------------------------------------------------------------
(* Runs of two independent PlayerTracker instances built with the same        *)
(* configuration: the first is given any lists, the second is given the same *)
(* lists in the same order, any number of calls behind the first             *)

TwinDets == {<<0, 0, 20, 40, 50>>, <<6, 0, 26, 40, 60>>, <<200, 0, 220, 40, 80>>}

TwinFramesLost == {0, 1}

InitTwin ==
    /\ \E md \in RunDistances, mfl \in TwinFramesLost :
            /\ tracker = PlayerTrackerInit(md, mfl)
            /\ trackerB = PlayerTrackerInit(md, mfl)
    /\ sort_kind \in SortKinds
    /\ feed = <<>>
    /\ outsA = <<>>
    /\ outsB = <<>>
    /\ IdleHistory
    /\ IdlePipe
    /\ IdleFilter

UpdateA(dets) ==
    /\ Len(feed) < MaxFeed
    /\ Track(dets)
    /\ feed' = Append(feed, dets)
    /\ outsA' = Append(outsA, result')
    /\ UNCHANGED <<sort_kind, trackerB, outsB, pipeVars, filterVars>>

UpdateB ==
    /\ Len(outsB) < Len(feed)
    /\ LET u == Update(trackerB, feed[Len(outsB) + 1], sort_kind)
       IN /\ trackerB' = u.tracker
          /\ outsB' = Append(outsB, u.result)
    /\ UNCHANGED <<trackerVars, feed, outsA, pipeVars, filterVars>>

NextTwin ==
    \/ \E dets \in InjectiveLists(TwinDets, MaxDets) : UpdateA(dets)
    \/ UpdateB

SpecTwin == InitTwin /\ [][NextTwin]_vars

-----------------------------------------------------------------------------
(* Calls of filter_players_in_field on any list, and again on what it returned *)

\* (height, width): landscape, where min(width, height) is the height, and
\* portrait, where it is the width
FilterShapes == {<<480, 640>>, <<1000, 200>>}

\* detections (x1, y1, x2, y2, conf).  For 480 x 640 the height bounds are
\* 7.2 and 168 and the top band ends at y = 24; for 1000 x 200 they are 3 and
\* 70, and 50
FilterDets ==
    {<<100, 100, 120, 140, 90>>,    \* 20 x 40, ratio 2
     <<10, 100, 14, 107, 80>>,      \* 4 x 7: under 7.2, over 3
     <<100, 100, 200, 268, 70>>,    \* height exactly 168
     <<100, 100, 150, 160, 60>>,    \* ratio exactly 1.2
     <<100, 100, 110, 150, 50>>,    \* ratio exactly 5.0
     <<100, 0, 120, 40, 40>>,       \* centre at y = 20, in the top band
     <<100, 4, 120, 44, 30>>,       \* centre at y = 24, the band's edge
     <<100, 100, 100, 140, 20>>}    \* zero width

InitFilter ==
    /\ field_shape \in FilterShapes
    /\ person_detections = <<>>
    /\ filtered_detections = <<>>
    /\ refiltered_detections = <<>>
    /\ tracker = PlayerTrackerInit(DefaultMaxDistance, DefaultMaxFramesLost)
    /\ sort_kind = "stable"
    /\ IdleHistory
    /\ IdleTwin
    /\ IdlePipe

\* filtered_detections = self.filter_players_in_field(detections, frame.shape)
FilterCall(dets) ==
    /\ person_detections' = dets
    /\ filtered_detections' = <<filter_players_in_field(dets, field_shape)>>
    /\ refiltered_detections' = <<>>
    /\ UNCHANGED <<field_shape, trackerVars, twinVars, pipeVars>>

\* the filter applied to the list the last call returned
FilterAgain ==
    /\ filtered_detections # <<>>
    /\ refiltered_detections = <<>>
    /\ refiltered_detections' =
            <<filter_players_in_field(filtered_detections[1], field_shape)>>
    /\ UNCHANGED <<field_shape, person_detections, filtered_detections,
                   trackerVars, twinVars, pipeVars>>

NextFilter ==
    \/ \E dets \in InjectiveLists(FilterDets, MaxDets) : FilterCall(dets)
    \/ FilterAgain

SpecFilter == InitFilter /\ [][NextFilter]_vars

\* C15: the filter applied to its own output returns that output: the same
\* detections in the same order, for any list and any frame shape
C15_FilterIdempotent ==
    refiltered_detections # <<>> =>
        refiltered_detections[1] = filtered_detections[1]

\* a list of one kept and one rejected detection was filtered twice
C15_Witness ==
    /\ refiltered_detections # <<>>
    /\ Len(person_detections) = 2
    /\ Len(filtered_detections[1]) = 1
    /\ Len(refiltered_detections[1]) = 1

\* the three rules as stated: the height strictly between 1.5% and 35% of
\* the smaller frame side, height / width strictly between 1.2 and 5, and the
\* vertical centre at or below 5% of the frame height (all in twentieths or
\* thousandths, to stay in the integers)
RuleSize(det, shape) ==
    LET side == IF shape[1] < shape[2] THEN shape[1] ELSE shape[2]
    IN 15 * side < 1000 * (det[4] - det[2]) /\ 1000 * (det[4] - det[2]) < 350 * side

RuleAspect(det) ==
    /\ det[3] - det[1] > 0
    /\ 6 * (det[3] - det[1]) < 5 * (det[4] - det[2])
    /\ det[4] - det[2] < 5 * (det[3] - det[1])

RuleField(det, shape) == 10 * (det[2] + det[4]) >= shape[1]

\* C24: the filter keeps a detection exactly if the three rules hold for it,
\* whatever else is in the list; what it returns is a sub-list of its input
\* in input order, and it returns an empty list for an empty list
C24_FilterKeepsIffThreeRules ==
    filtered_detections # <<>> =>
        LET kept == filtered_detections[1]
            place(d) == CHOOSE i \in 1..Len(person_detections) : person_detections[i] = d
        IN /\ \A i \in 1..Len(person_detections) :
                 (\E k \in 1..Len(kept) : kept[k] = person_detections[i])
                     <=> /\ RuleSize(person_detections[i], field_shape)
                         /\ RuleAspect(person_detections[i])
                         /\ RuleField(person_detections[i], field_shape)
           /\ \A k \in 1..Len(kept) : kept[k] \in Range(person_detections)
           /\ \A j, k \in 1..Len(kept) : j < k => place(kept[j]) < place(kept[k])
           /\ person_detections = <<>> => kept = <<>>

\* in a 640 x 480 frame, a list of a box of height exactly 35% of 480 and a
\* box with its centre exactly at 5% of the height: only the second is kept
C24_Witness ==
    /\ filtered_detections # <<>>
    /\ field_shape = <<480, 640>>
    /\ Len(person_detections) = 2
    /\ person_detections[1][4] - person_detections[1][2] = 168
    /\ person_detections[2][2] + person_detections[2][4] = 48
    /\ filtered_detections[1] = <<person_detections[2]>>

-----------------------------------------------------------------------------
(* The two passes of one FootballPlayerDetector over one video *)

\* what the pose model returns for a region it finds a person in: 17 keypoints
\* (x, y, conf) in region coordinates, the first k confident, the next one at
\* exactly the acceptance threshold, the others below it
RawKeypoints(k) ==
    [i \in 1..NumKeypoints |->
        <<i, 2 * i, IF i <= k THEN 90 ELSE IF i = k + 1 THEN PoseThreshold ELSE 10>>]

Confident(k) == [kind |-> "keypoints", keypoints |-> RawKeypoints(k)]
Nothing == [kind |-> "nothing", keypoints |-> <<>>]
Raises == [kind |-> "raise", keypoints |-> <<>>]

\* an object of a frame: what the detection model reports for it (box, conf,
\* cls) and what the pose model does on the region around that box
Object(box, conf, cls, pose) == [box |-> box, conf |-> conf, cls |-> cls, pose |-> pose]

BoxA == <<100, 100, 120, 140>>
BoxA2 == <<130, 100, 150, 140>>   \* 30 pixels from BoxA
BoxB == <<300, 10, 320, 50>>      \* more than max_distance from both, and
                                  \* near the top: its region is clipped at y = 0
BoxWide == <<200, 100, 300, 140>> \* fails the aspect rule
BoxOff == <<700, 100, 720, 140>>  \* right of the frame: its region is empty
BoxBall == <<400, 300, 410, 310>>

\* the frames a video is made of
Scenes ==
    {<<>>,
     <<Object(BoxB, 80, 0, Confident(17)), Object(BoxA, 90, 0, Confident(17))>>,
     <<Object(BoxA2, 70, 0, Confident(2)), Object(BoxB, 80, 0, Confident(17))>>,
     <<Object(BoxA, 90, 0, Confident(5)), Object(BoxB, 80, 0, Nothing)>>,
     <<Object(BoxA, 90, 0, Raises), Object(BoxB, 80, 0, Confident(17))>>,
     <<Object(BoxA, 90, 0, Confident(17))>>,
     <<Object(BoxB, 80, 0, Confident(17))>>,
     <<Object(BoxOff, 60, 0, Confident(17))>>,
     <<Object(BoxBall, 50, 32, Nothing), Object(BoxWide, 60, 0, Confident(17)),
       Object(BoxA2, 70, 0, Confident(2))>>}

\* what the pose model does on the region around bbox in this frame
PoseOn(scene, bbox) ==
    (CHOOSE o \in Range(scene) : o.box = bbox).pose

\* FootballPlayerDetector.__init__
InitPipe ==
    /\ tracker = PlayerTrackerInit(DefaultMaxDistance, DefaultMaxFramesLost)
    /\ sort_kind \in SortKinds
    /\ IdleHistory
    /\ IdleTwin
    /\ IdlePipe
    /\ IdleFilter

\* process_video_first_pass up to its loop: the video opens
P1Open ==
    /\ pc = "idle"
    /\ pc' = "pass1"
    /\ player_counts' = <<>>
    /\ UNCHANGED <<trackerVars, twinVars, filterVars, p1_fault,
                   detected_player_ids, video, decoded1,
                   p1_results, selected_player_ids, csv_data, frame_count,
                   player_usage_count, decoded2, p2_results, candidate_players,
                   best_player_id, pose_calls, p2_fault, csv_file, returned>>

\* cap.isOpened() is false: ValueError
P1OpenFails ==
    /\ pc = "idle"
    /\ pc' = "p1_raised"
    /\ p1_fault' = "open"
    /\ UNCHANGED <<trackerVars, twinVars, filterVars,
                   detected_player_ids, player_counts, video,
                   decoded1, p1_results, selected_player_ids, csv_data, frame_count,
                   player_usage_count, decoded2, p2_results, candidate_players,
                   best_player_id, pose_calls, p2_fault, csv_file, returned>>

\* only the first returned track is recorded
ResultIdsFirst(r) == IF r = <<>> THEN {} ELSE {r[1][1]}

\* the ids detect_players_in_frame adds to detected_player_ids
ResultIds(r) == {r[k][1] : k \in 1..Len(r)}

\* one turn of the loop of pass 1 with a decoded frame: detect_players_in_frame,
\* then the occupancy entry
P1Frame(scene) ==
    /\ pc = "pass1"
    /\ Len(video) < MaxFrames
    /\ video' = Append(video, scene)
    /\ decoded1' = decoded1 + 1
    /\ Track(filter_players_in_field(PersonDetections(scene), FrameShape))
    /\ detected_player_ids' = detected_player_ids \cup ResultIds(result')
    /\ player_counts' = Append(player_counts, Len(result'))
    /\ p1_results' = Append(p1_results, result')
    /\ UNCHANGED <<sort_kind, twinVars, filterVars, p1_fault, pc,
                   selected_player_ids, csv_data, frame_count,
                   player_usage_count, decoded2, p2_results, candidate_players,
                   best_player_id, pose_calls, p2_fault, csv_file, returned>>

\* the same turn when the detection model raises: nothing catches it
P1DetectionRaises(scene) ==
    /\ pc = "pass1"
    /\ Len(video) < MaxFrames
    /\ video' = Append(video, scene)
    /\ decoded1' = decoded1 + 1
    /\ pc' = "p1_raised"
    /\ p1_fault' = "detect"
    /\ UNCHANGED <<trackerVars, twinVars, filterVars,
                   detected_player_ids, player_counts,
                   p1_results, selected_player_ids, csv_data, frame_count,
                   player_usage_count, decoded2, p2_results, candidate_players,
                   best_player_id, pose_calls, p2_fault, csv_file, returned>>

\* a frame that cannot be read taken as an error
P1StopRaises ==
    /\ pc = "pass1"
    /\ pc' = "p1_raised"
    /\ UNCHANGED <<trackerVars, twinVars, filterVars, p1_fault,
                   detected_player_ids, player_counts, video,
                   decoded1, p1_results, selected_player_ids, csv_data, frame_count,
                   player_usage_count, decoded2, p2_results, candidate_players,
                   best_player_id, pose_calls, p2_fault, csv_file, returned>>

\* cap.read() gives no frame (end of the video or a decode failure), or the
\* viewer pressed q after a frame: the pass returns detected_player_ids
P1Stop ==
    /\ pc = "pass1"
    /\ pc' = "selecting"
    /\ UNCHANGED <<trackerVars, twinVars, filterVars, p1_fault,
                   detected_player_ids, player_counts, video,
                   decoded1, p1_results, selected_player_ids, csv_data, frame_count,
                   player_usage_count, decoded2, p2_results, candidate_players,
                   best_player_id, pose_calls, p2_fault, csv_file, returned>>

\* self.tracker = PlayerTracker(max_distance=80, max_frames_lost=15) of pass 2
ReinitTrackerKept(t) == t
ReinitTracker(t) == PlayerTrackerInit(DefaultMaxDistance, DefaultMaxFramesLost)

\* process_video_second_pass up to its loop, for a candidate set chosen from
\* the ids pass 1 returned
P2Open(selected) ==
    /\ pc = "selecting"
    /\ pc' = "pass2"
    /\ tracker' = ReinitTracker(tracker)
    /\ result' = <<>>
    /\ assignments' = <<>>
    /\ detections' = <<>>
    /\ fresh' = <<>>
    /\ created' = <<>>
    /\ gone' = EmptyDict
    /\ revived' = EmptyDict
    /\ selected_player_ids' = selected
    /\ csv_data' = <<>>
    /\ frame_count' = 0
    /\ player_usage_count' = [pid \in selected |-> 0]
    /\ UNCHANGED <<sort_kind, twinVars, filterVars, p1_fault,
                   detected_player_ids, player_counts, video,
                   decoded1, p1_results, decoded2, p2_results, candidate_players,
                   best_player_id, pose_calls, p2_fault, csv_file, returned>>

\* pass 2 without the cap.isOpened() test: the loop gets no frame, the table
\* is written with its header only, and the summary then divides by zero
P2OpenUnchecked(selected) ==
    /\ pc = "selecting"
    /\ pc' = "p2_raised"
    /\ p2_fault' = "open"
    /\ selected_player_ids' = selected
    /\ csv_file' = <<csv_data>>
    /\ UNCHANGED <<trackerVars, twinVars, filterVars, p1_fault,
                   detected_player_ids, player_counts, video,
                   decoded1, p1_results, csv_data, frame_count, player_usage_count,
                   decoded2, p2_results, candidate_players, best_player_id, pose_calls,
                   returned>>

\* cap.isOpened() is false: ValueError, before the tracker is re-initialised
P2OpenFails(selected) ==
    /\ pc = "selecting"
    /\ pc' = "p2_raised"
    /\ p2_fault' = "open"
    /\ selected_player_ids' = selected
    /\ UNCHANGED <<trackerVars, twinVars, filterVars, p1_fault,
                   detected_player_ids, player_counts, video,
                   decoded1, p1_results, csv_data, frame_count, player_usage_count,
                   decoded2, p2_results, candidate_players, best_player_id, pose_calls, csv_file,
                   returned>>

\* the frame cap.read() delivers next in pass 2: the video is decoded again
\* from the start, and may go on where pass 1 stopped
NextFrames ==
    IF decoded2 < Len(video) THEN {video[decoded2 + 1]}
    ELSE IF Len(video) < MaxFrames THEN Scenes ELSE {}

VideoWith(scene) == IF decoded2 < Len(video) THEN video ELSE Append(video, scene)

\* the poses of the returned tracks that are candidates, in the order returned
PosesOf(scene, tracked, selected) ==
    LET mine == SelectSeq(tracked, LAMBDA tp : tp[1] \in selected)
    IN [k \in 1..Len(mine) |->
            [id |-> mine[k][1],
             pose |-> get_pose_for_player(FrameShape,
                          <<mine[k][2], mine[k][3], mine[k][4], mine[k][5]>>,
                          PoseOn(scene, <<mine[k][2], mine[k][3], mine[k][4], mine[k][5]>>))]]

\* candidate_players, as a list in insertion order
Candidates(poses) ==
    [k \in 1..Len(poses) |->
        [id |-> poses[k].id,
         keypoints |-> poses[k].pose.keypoints,
         valid_count |-> ValidLandmarks(poses[k].pose.keypoints)]]

\* the first thing that goes wrong while the candidates of a frame are built:
\* the pose model raises, or "for kp in keypoints" meets keypoints = None
PoseFault(poses) ==
    IF \A k \in 1..Len(poses) : poses[k].pose.status = "ok" THEN "none"
    ELSE LET k == CHOOSE i \in 1..Len(poses) :
                        /\ poses[i].pose.status # "ok"
                        /\ \A j \in 1..(i - 1) : poses[j].pose.status = "ok"
         IN IF poses[k].pose.status = "raise" THEN "pose" ELSE "crop"

\* every candidate's count raised, not only the selected one's
UsedAll(usage, id) == [pid \in DOMAIN usage |-> usage[pid] + 1]

\* the count raised by two
UsedTwice(usage, id) == [usage EXCEPT ![id] = @ + 2]

\* player_usage_count[best_player_id] += 1
Used(usage, id) == [usage EXCEPT ![id] = @ + 1]

\* the tracks self.pose_model(player_region) ran for while the candidates of
\* a frame were built: none for an empty region, none after the first fault
PoseCalls(poses) ==
    LET done == {k \in 1..Len(poses) :
                    \A j \in 1..(k - 1) : poses[j].pose.status = "ok"}
        ran == SelectSeq([k \in 1..Len(poses) |-> k],
                         LAMBDA k : k \in done /\ poses[k].pose.status # "None")
    IN [k \in 1..Len(ran) |-> poses[ran[k]].id]

\* one turn of the loop of pass 2 with a decoded frame
P2Frame(scene) ==
    /\ pc = "pass2"
    /\ scene \in NextFrames
    /\ video' = VideoWith(scene)
    /\ decoded2' = decoded2 + 1
    /\ Track(filter_players_in_field(PersonDetections(scene), FrameShape))
    /\ p2_results' = Append(p2_results, result')
    /\ pose_calls' = PoseCalls(PosesOf(scene, result', selected_player_ids))
    /\ LET poses == PosesOf(scene, result', selected_player_ids)
           fault == PoseFault(poses)
           cands == Candidates(poses)
       IN IF fault # "none"
          THEN /\ pc' = "p2_raised"
               /\ p2_fault' = fault
               /\ UNCHANGED <<csv_data, frame_count, player_usage_count,
                              candidate_players, best_player_id>>
          ELSE /\ candidate_players' = cands
               /\ best_player_id' =
                      IF cands = <<>> THEN 0 ELSE cands[BestPlayer(cands)].id
               /\ player_usage_count' =
                      IF cands = <<>> THEN player_usage_count
                      ELSE Used(player_usage_count, cands[BestPlayer(cands)].id)
               /\ csv_data' = Append(csv_data,
                      RowData(frame_count,
                              IF cands = <<>> THEN NoPose
                              ELSE cands[BestPlayer(cands)].keypoints))
               /\ frame_count' = frame_count + 1
               /\ UNCHANGED <<pc, p2_fault>>
    /\ UNCHANGED <<sort_kind, twinVars, filterVars, p1_fault,
                   detected_player_ids, player_counts, decoded1,
                   p1_results, selected_player_ids, csv_file, returned>>

\* the same turn when the detection model raises
P2DetectionRaises(scene) ==
    /\ pc = "pass2"
    /\ scene \in NextFrames
    /\ video' = VideoWith(scene)
    /\ decoded2' = decoded2 + 1
    /\ pc' = "p2_raised"
    /\ p2_fault' = "detect"
    /\ pose_calls' = <<>>
    /\ UNCHANGED <<trackerVars, twinVars, filterVars, p1_fault,
                   detected_player_ids, player_counts, decoded1,
                   p1_results, selected_player_ids, csv_data, frame_count,
                   player_usage_count, p2_results, candidate_players, best_player_id,
                   csv_file, returned>>

\* cap.read() gives no frame: the table is written, then the summary is
\* printed, dividing by frame_count, and the counts are returned
P2Stop ==
    /\ pc = "pass2"
    /\ csv_file' = <<csv_data>>
    /\ IF frame_count = 0
       THEN /\ pc' = "p2_raised"
            /\ p2_fault' = "division"
            /\ UNCHANGED returned
       ELSE /\ pc' = "done"
            /\ returned' = <<player_usage_count, frame_count>>
            /\ UNCHANGED p2_fault
    /\ UNCHANGED <<trackerVars, twinVars, filterVars, p1_fault,
                   detected_player_ids, player_counts, video,
                   decoded1, p1_results, selected_player_ids, csv_data, frame_count,
                   player_usage_count, decoded2, p2_results, candidate_players,
                   best_player_id, pose_calls>>

CandidateSets ==
    {sel \in SUBSET detected_player_ids : sel # {} /\ Cardinality(sel) <= MaxSelected}

NextPipe ==
    \/ P1Open
    \/ P1OpenFails
    \/ \E scene \in Scenes : P1Frame(scene)
    \/ \E scene \in Scenes : P1DetectionRaises(scene)
    \/ P1Stop
    \/ \E selected \in CandidateSets : P2Open(selected)
    \/ \E selected \in CandidateSets : P2OpenFails(selected)
    \/ \E scene \in Scenes : P2Frame(scene)
    \/ \E scene \in Scenes : P2DetectionRaises(scene)
    \/ P2Stop

SpecPipe == InitPipe /\ [][NextPipe]_vars

-----------------------------------------------------------------------------
(* Properties of the two passes *)

\* the candidates of the last completed frame whose valid count is the greatest
Maximal(cands) ==
    {i \in 1..Len(cands) :
        \A j \in 1..Len(cands) :
            ValidLandmarks(cands[j].keypoints) <= ValidLandmarks(cands[i].keypoints)}

\* C4: when several candidates of a frame share the greatest valid-keypoint
\* count, the one with the lowest track id is the one selected
C4_LowestIdOnTie ==
    (frame_count > 0 /\ candidate_players # <<>>) =>
        \A i \in Maximal(candidate_players) :
            best_player_id <= candidate_players[i].id

\* C5: a frame of pass 2 whose detection call or pose call raised, or whose
\* candidate had an empty region, is still counted and emitted, and the run goes on
C5_DegradedFrameEmitted ==
    p2_fault \in {"detect", "pose", "crop"} =>
        /\ pc # "p2_raised"
        /\ Len(csv_data) = decoded2
        /\ frame_count = decoded2

\* C6: each pass holds one per-frame record for each decoded frame, and pass 2,
\* once over, has returned that number as the frame count
C6_RecordsEqualDecodedFrames ==
    /\ Len(player_counts) = decoded1
    /\ Len(csv_data) = decoded2
    /\ pc \in {"done", "p2_raised"} /\ p2_fault # "open" =>
            /\ returned # <<>>
            /\ returned[2] = decoded2

\* C8: pass 2 starts from a tracker in the state pass 1 started from, and for
\* every frame both passes have processed, pass 2's tracker returned the list
\* of (track_id, bbox, conf) that pass 1's tracker returned
C8_Pass2RepeatsPass1 ==
    /\ (pc = "pass2" /\ decoded2 = 0) =>
            tracker = PlayerTrackerInit(DefaultMaxDistance, DefaultMaxFramesLost)
    /\ \A k \in 1..Min(Len(p1_results), Len(p2_results)) :
            p2_results[k] = p1_results[k]

\* pass 2 has repeated two frames of pass 1 in which tracks were returned
C8_Witness ==
    /\ pc \in {"pass2", "done"}
    /\ Len(p2_results) >= 2
    /\ Len(p1_results) >= 2
    /\ p2_results[1] # <<>>
    /\ p2_results[2] # <<>>
    /\ p2_results[2][1][1] # p2_results[1][1][1]

\* the 51 keypoint fields of a row, as 17 triples
RowKeypoints(row) ==
    [i \in 1..NumKeypoints |-> <<row[3 * i - 1], row[3 * i], row[3 * i + 1]>>]

\* C10: the record emitted for a frame holds the 17 keypoints of a candidate
\* of that frame whose count of keypoints with x, y and confidence all present
\* is the greatest among the frame's candidates, and has all 51 keypoint
\* fields missing if the frame had no candidate
C10_BestOfSelection ==
    frame_count > 0 =>
        LET row == csv_data[Len(csv_data)]
        IN /\ Len(row) = 1 + 3 * NumKeypoints
           /\ candidate_players # <<>> =>
                 \E i \in Maximal(candidate_players) :
                     /\ RowKeypoints(row) = candidate_players[i].keypoints
                     /\ best_player_id = candidate_players[i].id
           /\ candidate_players = <<>> =>
                 \A f \in 2..Len(row) : IsNa(row[f])

\* a frame with two candidates of different counts, the second the better one,
\* whose keypoints the emitted row holds
C10_Witness ==
    /\ frame_count >= 1
    /\ Len(candidate_players) = 2
    /\ ValidLandmarks(candidate_players[1].keypoints) = 2
    /\ ValidLandmarks(candidate_players[2].keypoints) = NumKeypoints
    /\ best_player_id = candidate_players[2].id
    /\ ~IsNa(csv_data[Len(csv_data)][2])

\* C11: when the video cannot be opened the pass raises before any frame is
\* read: pass 1 has decoded nothing, tracked nothing and collected no id or
\* occupancy entry; pass 2 has decoded nothing, emitted no record, written no
\* table and returned nothing
C11_OpenFailureIsFatal ==
    /\ p1_fault = "open" =>
            /\ pc = "p1_raised"
            /\ decoded1 = 0
            /\ p1_results = <<>>
            /\ player_counts = <<>>
            /\ detected_player_ids = {}
    /\ p2_fault = "open" =>
            /\ pc = "p2_raised"
            /\ decoded2 = 0
            /\ p2_results = <<>>
            /\ csv_data = <<>>
            /\ csv_file = <<>>
            /\ returned = <<>>

\* pass 1 ran over two frames and found players, then the video could not be
\* opened for pass 2
C11_Witness ==
    /\ p2_fault = "open"
    /\ decoded1 = 2
    /\ selected_player_ids # {}

\* the detections of a frame that reach the tracker
Filtered(scene) == filter_players_in_field(PersonDetections(scene), FrameShape)

\* each of the first n frames holds exactly one detection passing the filter,
\* less than max_distance from the one of the frame before
SteadySingle(n) ==
    /\ n <= Len(video)
    /\ \A k \in 1..n : Len(Filtered(video[k])) = 1
    /\ \A k \in 2..n :
            SqDist(Center(Filtered(video[k])[1]), Center(Filtered(video[k - 1])[1]))
                < DefaultMaxDistance * DefaultMaxDistance

\* the frames so far return one track each, all with the id of the first
SameSingleId(results) ==
    \A k \in 1..Len(results) :
        /\ Len(results[k]) = 1
        /\ results[k][1][1] = results[1][1][1]

\* C12: when every frame holds exactly one detection that passes the filter,
\* less than max_distance from where it was in the frame before, the tracker
\* returns one and the same track id in every frame of either pass, and with
\* that id as the candidate set its usage count is the frame count of pass 2
C12_SteadyPlayerKeepsId ==
    /\ SteadySingle(Len(p1_results)) => SameSingleId(p1_results)
    /\ SteadySingle(Len(p2_results)) => SameSingleId(p2_results)
    /\ (/\ frame_count >= 1
        /\ SteadySingle(frame_count)
        /\ selected_player_ids = {p2_results[1][1][1]}) =>
            /\ player_usage_count[p2_results[1][1][1]] = frame_count
            /\ pc = "done" =>
                    returned = <<[id \in selected_player_ids |-> frame_count],
                                 frame_count>>

\* pass 2 has returned after two frames in which the one player moved
C12_Witness ==
    /\ pc = "done"
    /\ frame_count = 2
    /\ SteadySingle(2)
    /\ Filtered(video[1]) # Filtered(video[2])
    /\ SameSingleId(p1_results)
    /\ selected_player_ids = {p2_results[1][1][1]}
    /\ player_usage_count[p2_results[1][1][1]] = 2

\* the frames among the first n of pass 2 in which the tracker returned id
ReturnedIn(id, n) == {k \in 1..n : id \in ResultIds(p2_results[k])}

\* in frame k the tracker returned id and the pose of its box has all 17
\* keypoints above the threshold
FullIn(id, k) ==
    \E j \in 1..Len(p2_results[k]) :
        LET tp == p2_results[k][j]
            bbox == <<tp[2], tp[3], tp[4], tp[5]>>
            pose == get_pose_for_player(FrameShape, bbox, PoseOn(video[k], bbox))
        IN /\ tp[1] = id
           /\ pose.status = "ok"
           /\ ValidLandmarks(pose.keypoints) = NumKeypoints

\* C13: with two candidates of which every frame returns exactly one, with
\* full keypoints (the one in the first frames, the other in the later ones,
\* or in any other split), every frame gets a record, no record has a missing
\* keypoint field, and each candidate's usage count is the number of frames
\* in which it was returned
C13_HandoverCountsEachOnce ==
    \A a, b \in selected_player_ids :
        (/\ a # b
         /\ selected_player_ids = {a, b}
         /\ frame_count >= 1
         /\ \A k \in 1..frame_count :
                \/ k \in ReturnedIn(a, frame_count) \ ReturnedIn(b, frame_count)
                   /\ FullIn(a, k)
                \/ k \in ReturnedIn(b, frame_count) \ ReturnedIn(a, frame_count)
                   /\ FullIn(b, k)) =>
            /\ Len(csv_data) = frame_count
            /\ \A k \in 1..frame_count :
                   \A f \in 2..(1 + 3 * NumKeypoints) : ~IsNa(csv_data[k][f])
            /\ player_usage_count[a] = Cardinality(ReturnedIn(a, frame_count))
            /\ player_usage_count[b] = Cardinality(ReturnedIn(b, frame_count))
            /\ pc = "done" => returned = <<player_usage_count, frame_count>>

\* pass 2 has returned after two frames, the first with the one candidate
\* only and the second with the other only, each counted once
C13_Witness ==
    /\ pc = "done"
    /\ frame_count = 2
    /\ Cardinality(selected_player_ids) = 2
    /\ \E a, b \in selected_player_ids :
          /\ ReturnedIn(a, 2) = {1}
          /\ ReturnedIn(b, 2) = {2}
          /\ FullIn(a, 1)
          /\ FullIn(b, 2)
          /\ player_usage_count[a] = 1
          /\ player_usage_count[b] = 1

\* C14: a frame in which no detection passes the filter still gets its
\* record, with all 51 keypoint fields missing, and record k (from 0) carries
\* frame index k: the indices start at 0 and have no gap and no repeat
C14_EmptyFrameRowSequentialIndex ==
    /\ Len(csv_data) = frame_count
    /\ \A k \in 1..Len(csv_data) :
            /\ Len(csv_data[k]) = 1 + 3 * NumKeypoints
            /\ csv_data[k][1] = k - 1
            /\ Filtered(video[k]) = <<>> =>
                    \A f \in 2..(1 + 3 * NumKeypoints) : IsNa(csv_data[k][f])
    /\ csv_file # <<>> => csv_file[1] = csv_data

\* the table was written with two records: a frame with a candidate's
\* keypoints, then a frame without any detection
C14_Witness ==
    /\ pc = "done"
    /\ Len(csv_file[1]) = 2
    /\ ~IsNa(csv_file[1][1][2])
    /\ Filtered(video[2]) = <<>>
    /\ csv_file[1][2][1] = 1
    /\ IsNa(csv_file[1][2][2])

\* C16: the id set pass 1 returns is exactly the set of ids its tracker has
\* allocated during the pass, and the occupancy entry of every frame is the
\* number of tracks the tracker returned for that frame
C16_Pass1IdsAndOccupancy ==
    /\ pc \in {"pass1", "selecting"} => detected_player_ids = Range(created)
    /\ Len(player_counts) = Len(p1_results)
    /\ \A k \in 1..Len(player_counts) : player_counts[k] = Len(p1_results[k])

\* pass 1 has returned after two frames: two tracks in the first, and in the
\* second a new track only, the two earlier ones unmatched
C16_Witness ==
    /\ pc = "selecting"
    /\ decoded1 = 2
    /\ Len(fresh) = 1
    /\ player_counts[1] = 2
    /\ player_counts[2] = 1
    /\ Cardinality(detected_player_ids) = 3

\* pass 1 from a new detector over a whole video of these frames: the ids
\* and the occupancy entries it ends with
RECURSIVE WholeRun(_, _, _)
WholeRun(frames, k, st) ==
    IF k > Len(frames) THEN st
    ELSE LET u == Update(st.tracker, Filtered(frames[k]), sort_kind)
         IN WholeRun(frames, k + 1,
                     [tracker |-> u.tracker,
                      ids |-> st.ids \cup {u.result[j][1] : j \in 1..Len(u.result)},
                      counts |-> Append(st.counts, Len(u.result))])

Pass1Over(frames) ==
    WholeRun(frames, 1,
             [tracker |-> PlayerTrackerInit(DefaultMaxDistance, DefaultMaxFramesLost),
              ids |-> {}, counts |-> <<>>])

C22_PoseOncePerReturnedCandidate ==
    (Len(p2_results) >= 1 /\ Len(p2_results) = decoded2) =>
        LET last == p2_results[Len(p2_results)]
            due == {last[k][1] : k \in 1..Len(last)} \cap selected_player_ids
        IN \A id \in due \cup Range(pose_calls) :
               Cardinality({k \in 1..Len(pose_calls) : pose_calls[k] = id})
                   = IF id \in due THEN 1 ELSE 0

\* the sum of the usage counters
RECURSIVE Total(_)
Total(usage) ==
    IF DOMAIN usage = {} THEN 0
    ELSE LET pid == CHOOSE x \in DOMAIN usage : TRUE
         IN usage[pid] + Total([q \in DOMAIN usage \ {pid} |-> usage[q]])

\* C23: a frame of pass 2 that selects a candidate raises that candidate's
\* usage counter by exactly one and changes no other counter; a frame that
\* selects none, and the end of the pass, change no counter; so the counters
\* add up to the number of frames in which the tracker returned at least one
\* candidate, which is at most the frame count
C23_UsageCountsSelectedFrames ==
    [][/\ (pc = "pass2" /\ frame_count' = frame_count + 1) =>
             player_usage_count' =
                 IF best_player_id' # 0
                 THEN [player_usage_count EXCEPT ![best_player_id'] = @ + 1]
                 ELSE player_usage_count
       /\ (pc = "pass2" /\ frame_count' = frame_count) =>
             player_usage_count' = player_usage_count
       /\ Total(player_usage_count') =
             Cardinality({k \in 1..frame_count' :
                            ResultIds(p2_results'[k]) \cap selected_player_ids' # {}})
       /\ Total(player_usage_count') <= frame_count'
      ]_vars

\* pass 2 has returned after a frame without any track and a frame with both
\* candidates, of which one was counted
C23_Witness ==
    /\ pc = "done"
    /\ frame_count = 2
    /\ p2_results[1] = <<>>
    /\ Len(candidate_players) = 2
    /\ best_player_id # 0
    /\ player_usage_count[best_player_id] = 1
    /\ Total(player_usage_count) = 1

\* the box update() returned for track id in frame k of pass 2
BoxIn(id, k) ==
    LET tp == CHOOSE e \in Range(p2_results[k]) : e[1] = id
    IN <<tp[2], tp[3], tp[4], tp[5]>>

\* C25: of the keypoints the pose model gave for a candidate's region, one
\* with confidence above 0.3 is kept with x and y moved by the origin of the
\* region (the box widened by 20 pixels, cut at the frame's edges) and with
\* its confidence; one with confidence 0.3 or less has x, y and confidence
\* missing; no keypoint has some fields missing and others not
C25_KeypointsShiftedOrMissing ==
    frame_count >= 1 =>
        \A c \in 1..Len(candidate_players) :
            LET bbox == BoxIn(candidate_players[c].id, frame_count)
                pose == PoseOn(video[frame_count], bbox)
                ox == IF bbox[1] - 20 < 0 THEN 0 ELSE bbox[1] - 20
                oy == IF bbox[2] - 20 < 0 THEN 0 ELSE bbox[2] - 20
                out == candidate_players[c].keypoints
            IN /\ Len(out) = 17
               /\ \A i \in 1..17 :
                     /\ IsNa(out[i][1]) <=> IsNa(out[i][2])
                     /\ IsNa(out[i][1]) <=> IsNa(out[i][3])
                     /\ pose.kind = "keypoints" =>
                           IF pose.keypoints[i][3] > 30
                           THEN out[i] = <<Num(pose.keypoints[i][1] + ox),
                                           Num(pose.keypoints[i][2] + oy),
                                           Num(pose.keypoints[i][3])>>
                           ELSE \A f \in 1..3 : IsNa(out[i][f])

\* a frame with two candidates: one whose third keypoint has confidence
\* exactly 0.3 and is missing, one whose region is cut at the top of the frame
C25_Witness ==
    /\ frame_count >= 1
    /\ Len(candidate_players) = 2
    /\ \E c \in 1..2 :
          /\ ~IsNa(candidate_players[c].keypoints[2][1])
          /\ IsNa(candidate_players[c].keypoints[3][1])
          /\ PoseOn(video[frame_count],
                    BoxIn(candidate_players[c].id, frame_count)).keypoints[3][3] = 30
    /\ \E c \in 1..2 :
          /\ BoxIn(candidate_players[c].id, frame_count)[2] < 20
          /\ candidate_players[c].keypoints[1] = <<Num(1 + 280), Num(2), Num(90)>>

\* C26: what update() returns has one entry for each detection it was given
\* (every detection is paired with exactly one track, matched or new) and no
\* track id twice; so a frame's result, and its occupancy entry in pass 1, is
\* as long as the frame's list of filtered detections
C26_OneEntryPerDetection ==
    /\ Len(result) = Len(detections)
    /\ \A d \in 1..Len(detections) :
           Cardinality({k \in 1..Len(assignments) : assignments[k][1] = d}) = 1
    /\ \A i, j \in 1..Len(result) : i # j => result[i][1] # result[j][1]
    /\ \A k \in 1..Len(p1_results) :
           /\ Len(p1_results[k]) = Len(Filtered(video[k]))
           /\ player_counts[k] = Len(Filtered(video[k]))
    /\ \A k \in 1..Len(p2_results) :
           Len(p2_results[k]) = Len(Filtered(video[k]))

\* pass 1 is in its second frame, which has one detection more than the
\* first: one track was matched and one created
C26_Witness ==
    /\ pc = "pass1"
    /\ player_counts = <<1, 2>>
    /\ Len(detections) = 2
    /\ Len(fresh) = 1
    /\ Len(result) = 2

-----------------------------------------------------------------------------
(* Properties of the tracker runs *)

AssignedIds(a) == {a[k][2] : k \in 1..Len(a)}

\* C1: the ids one tracker instance allocates are strictly increasing in
\* allocation order (so no id is allocated twice, also not after its track was
\* removed), and every id in the registry, in a result or among the removed
\* tracks is one of them
C1_IdsIncreasingNeverReused ==
    /\ \A i, j \in 1..Len(created) : i < j => created[i] < created[j]
    /\ DOMAIN tracker.tracks \subseteq Range(created)
    /\ DOMAIN gone \subseteq Range(created)
    /\ \A k \in 1..Len(result) : result[k][1] \in Range(created)
    /\ \A id \in Range(created) : id < tracker.next_id

\* a track was removed and a later call allocated a further id
C1_Witness ==
    /\ gone # EmptyDict
    /\ fresh # <<>>
    /\ \E g \in DOMAIN gone : g < fresh[1]
    /\ Len(created) >= 3

\* C2: in every update() call a track that stays in the registry has its
\* lost-counter set to 0 if the call matched it and raised by exactly 1 if not
\* (empty detection list included), and no counter is negative
C2_LostCounterStep ==
    [][\A id \in DOMAIN tracker.tracks \cap DOMAIN tracker'.tracks :
          /\ tracker'.tracks[id].frames_lost >= 0
          /\ id \in AssignedIds(assignments') =>
                tracker'.tracks[id].frames_lost = 0
          /\ id \notin AssignedIds(assignments') =>
                tracker'.tracks[id].frames_lost = tracker.tracks[id].frames_lost + 1
      ]_vars

\* after one call: a matched older track at 0 beside an unmatched one that aged
C2_Witness ==
    /\ \E id \in DOMAIN tracker.tracks :
          /\ id \in AssignedIds(assignments)
          /\ id \notin Range(fresh)
          /\ tracker.tracks[id].frames_lost = 0
    /\ \E id \in DOMAIN tracker.tracks :
          /\ id \notin AssignedIds(assignments)
          /\ tracker.tracks[id].frames_lost >= 1

\* the lost-counter of a track of the registry after the call's increment
CounterAfter(id, assigned) ==
    IF id \in AssignedIds(assigned) THEN 0 ELSE tracker.tracks[id].frames_lost + 1

\* C3: an update() call removes a track if and only if its lost-counter after
\* the call's increment exceeds max_frames_lost; a track created by the call stays
C3_RemovedIffExceeds ==
    [][/\ \A id \in DOMAIN tracker.tracks :
            (id \notin DOMAIN tracker'.tracks)
                <=> (CounterAfter(id, assignments') > tracker.max_frames_lost)
       /\ Range(fresh') \subseteq DOMAIN tracker'.tracks
      ]_vars

\* one track was removed while another survives with its counter at the maximum
C3_Witness ==
    /\ gone # EmptyDict
    /\ tracker.max_frames_lost >= 1
    /\ \E id \in DOMAIN tracker.tracks :
          tracker.tracks[id].frames_lost = tracker.max_frames_lost

\* C9: a track is removed on exactly its (max_frames_lost + 1)-th consecutive
\* unmatched call; from then on its id is in neither the registry nor a result,
\* and a detection near its last position that starts a track gets a larger id
C9_RemovedThenNewId ==
    \A g \in DOMAIN gone :
        /\ gone[g].misses = tracker.max_frames_lost + 1
        /\ g \notin DOMAIN tracker.tracks
        /\ \A k \in 1..Len(assignments) :
              /\ assignments[k][2] # g
              /\ result[k][1] # g
              /\ (/\ Within(SqDist(Center(detections[assignments[k][1]]), gone[g].center),
                            tracker.max_distance)
                  /\ assignments[k][2] \in Range(fresh))
                 => assignments[k][2] > g

\* a detection at the last position of a removed track, alone, started a new track
C9_Witness ==
    \E g \in DOMAIN gone :
        /\ Len(detections) = 1
        /\ Center(detections[1]) = gone[g].center
        /\ fresh # <<>>
        /\ result[1][1] = fresh[1]
        /\ fresh[1] > g
        /\ DOMAIN tracker.tracks = {fresh[1]}

\* C18: the pairs of a detection and an existing track that an update() call
\* accepts use no detection twice and no track twice, and the detection's
\* centre is strictly less than max_distance from the centre the track had
\* before the call (a pair at exactly max_distance is not accepted)
C18_MatchingOneToOneUnderBound ==
    [][LET accepted == {k \in 1..Len(assignments') :
                            assignments'[k][2] \in DOMAIN tracker.tracks}
       IN /\ \A k \in accepted :
                SqDist(Center(detections'[assignments'[k][1]]),
                       tracker.tracks[assignments'[k][2]].center)
                    < tracker.max_distance * tracker.max_distance
          /\ \A i, j \in accepted :
                i # j => /\ assignments'[i][1] # assignments'[j][1]
                         /\ assignments'[i][2] # assignments'[j][2]]_vars

\* a call gave a new id to a detection exactly max_distance from a track
\* that is still in the registry, unmatched by this call
C18_Witness ==
    /\ Len(fresh) = 1
    /\ Len(created) >= 2
    /\ \E k \in 1..Len(assignments) :
          /\ assignments[k][2] = fresh[1]
          /\ \E id \in DOMAIN tracker.tracks :
                /\ tracker.tracks[id].frames_lost >= 1
                /\ SqDist(Center(detections[assignments[k][1]]),
                          tracker.tracks[id].center)
                       = tracker.max_distance * tracker.max_distance

\* the pairs (det_idx, track_id) of a call, and the order of the reference
\* procedure: by distance, then detection index, then the track's place in
\* the registry (ids are inserted in increasing order)
Pairs(dets, tracks) == (1..Len(dets)) \X DOMAIN tracks

PairDist(p, dets, tracks) == SqDist(Center(dets[p[1]]), tracks[p[2]].center)

Earlier(p, q, dets, tracks) ==
    \/ PairDist(p, dets, tracks) < PairDist(q, dets, tracks)
    \/ /\ PairDist(p, dets, tracks) = PairDist(q, dets, tracks)
       /\ \/ p[1] < q[1]
          \/ p[1] = q[1] /\ p[2] < q[2]

\* the reference greedy walk over the pairs not yet visited
RECURSIVE Reference(_, _, _, _, _)
Reference(todo, dets, tracks, max_distance, acc) ==
    IF todo = {} THEN acc
    ELSE LET p == CHOOSE x \in todo :
                      \A y \in todo \ {x} : Earlier(x, y, dets, tracks)
             free == \A a \in acc : a[1] # p[1] /\ a[2] # p[2]
         IN Reference(todo \ {p}, dets, tracks, max_distance,
                      IF free /\ PairDist(p, dets, tracks) < max_distance * max_distance
                      THEN acc \cup {p} ELSE acc)

\* C19: the pairs of a detection and an existing track that an update() call
\* accepts are those of the reference greedy procedure, which visits every
\* pair once by ascending distance, equal distances in input order (by
\* detection index, then by the track's place in the registry)
C19_AssociationIsReferenceGreedy ==
    [][{assignments'[k] : k \in {i \in 1..Len(assignments') :
                                    assignments'[i][2] \in DOMAIN tracker.tracks}}
         = Reference(Pairs(detections', tracker.tracks), detections',
                     tracker.tracks, tracker.max_distance, {})]_vars

\* C20: what update() returns is one entry for each track the call matched or
\* created (the tracks whose lost-counter the call left at 0) and no entry
\* for a track the call left unmatched; each entry is the track's id with
\* the box and the confidence of the detection the track received
C20_ResultIsTheCallsTracks ==
    /\ {result[k][1] : k \in 1..Len(result)} =
           {id \in DOMAIN tracker.tracks : tracker.tracks[id].frames_lost = 0}
    /\ \A i, j \in 1..Len(result) : i # j => result[i][1] # result[j][1]
    /\ \A k \in 1..Len(result) :
           \E a \in 1..Len(assignments) :
               /\ assignments[a][2] = result[k][1]
               /\ result[k] = <<result[k][1]>> \o detections[assignments[a][1]]

\* a call matched one track and left another
\* track unmatched in the registry
C20_Witness ==
    /\ Len(result) = 1
    /\ fresh = <<>>
    /\ Cardinality(DOMAIN tracker.tracks) = 2
    /\ \E id \in DOMAIN tracker.tracks : tracker.tracks[id].frames_lost >= 1

\* C21: update() with an empty list returns an empty result, allocates no id
\* and creates no track; every track's lost-counter goes up by one, the tracks
\* whose counter then exceeds max_frames_lost are removed, and the others keep
\* their centre, bbox and confidence; the configuration is untouched
C21_EmptyListOnlyAges ==
    [][detections' = <<>> =>
          /\ result' = <<>>
          /\ assignments' = <<>>
          /\ fresh' = <<>>
          /\ tracker'.next_id = tracker.next_id
          /\ tracker'.max_distance = tracker.max_distance
          /\ tracker'.max_frames_lost = tracker.max_frames_lost
          /\ DOMAIN tracker'.tracks =
                 {id \in DOMAIN tracker.tracks :
                     tracker.tracks[id].frames_lost + 1 <= tracker.max_frames_lost}
          /\ \A id \in DOMAIN tracker'.tracks :
                 tracker'.tracks[id] =
                     [tracker.tracks[id] EXCEPT !.frames_lost = @ + 1]
      ]_vars

\* an empty call removed an older track and kept a younger one, aged by one
C21_Witness ==
    /\ detections = <<>>
    /\ result = <<>>
    /\ tracker.max_frames_lost >= 1
    /\ \E id \in DOMAIN tracker.tracks :
          /\ tracker.tracks[id].frames_lost = 1
          /\ \E g \in DOMAIN gone :
                /\ g < id
                /\ gone[g].misses = tracker.max_frames_lost + 1

\* C27: after every update() call each track of the registry has a
\* lost-counter from 0 to max_frames_lost, and each track the call returned
\* is in the registry with lost-counter 0
C27_CountersWithinBound ==
    /\ \A id \in DOMAIN tracker.tracks :
           /\ tracker.tracks[id].frames_lost >= 0
           /\ tracker.tracks[id].frames_lost <= tracker.max_frames_lost
    /\ \A k \in 1..Len(result) :
           /\ result[k][1] \in DOMAIN tracker.tracks
           /\ tracker.tracks[result[k][1]].frames_lost = 0

\* a call returned a track it matched, beside a track whose counter is at
\* max_frames_lost = 2
C27_Witness ==
    /\ tracker.max_frames_lost = 2
    /\ \E k \in 1..Len(result) : result[k][1] \notin Range(fresh)
    /\ \E id \in DOMAIN tracker.tracks : tracker.tracks[id].frames_lost = 2

\* C28: when an update() call gives a detection a new track, every track
\* that was in the registry before the call and had its centre strictly less
\* than max_distance from that detection was matched by the call to another
\* detection
C28_GreedyIsMaximal ==
    [][\A k \in 1..Len(assignments') :
          assignments'[k][2] \notin DOMAIN tracker.tracks =>
              \A id \in DOMAIN tracker.tracks :
                  SqDist(Center(detections'[assignments'[k][1]]),
                         tracker.tracks[id].center)
                      < tracker.max_distance * tracker.max_distance
                  => \E j \in 1..Len(assignments') :
                         /\ assignments'[j][2] = id
                         /\ assignments'[j][1] # assignments'[k][1]
      ]_vars

\* a call with two detections near one track: the track went to one of them
\* and the other, less than max_distance from where the track now is, started
\* a new one
C28_Witness ==
    /\ Len(assignments) = 2
    /\ Len(fresh) = 1
    /\ \E k, j \in 1..2 :
          /\ assignments[k][2] = fresh[1]
          /\ assignments[j][2] # fresh[1]
          /\ SqDist(Center(detections[assignments[k][1]]),
                    tracker.tracks[assignments[j][2]].center)
                 < tracker.max_distance * tracker.max_distance

\* C29: a track that is still in the registry after one or more unmatched
\* calls, and then gets a call with a single detection strictly less than
\* max_distance from its stored centre while no other track is that near, is
\* matched to it: same id, no new id, lost-counter back at 0
C29_ShortGapForgiven ==
    [][\A id \in DOMAIN tracker.tracks :
          (/\ Len(detections') = 1
           /\ tracker.tracks[id].frames_lost >= 1
           /\ SqDist(Center(detections'[1]), tracker.tracks[id].center)
                  < tracker.max_distance * tracker.max_distance
           /\ \A o \in DOMAIN tracker.tracks \ {id} :
                  SqDist(Center(detections'[1]), tracker.tracks[o].center)
                      >= tracker.max_distance * tracker.max_distance)
          => /\ assignments' = <<<<1, id>>>>
             /\ fresh' = <<>>
             /\ ResultIds(result') = {id}
             /\ id \in DOMAIN tracker'.tracks
             /\ tracker'.tracks[id].frames_lost = 0
             /\ tracker'.tracks[id].center = Center(detections'[1])
      ]_vars

\* a track that had gone unmatched for max_frames_lost calls, the longest gap
\* it can survive, came back on a lone detection away from its old centre
C29_Witness ==
    /\ tracker.max_frames_lost >= 1
    /\ Len(detections) = 1
    /\ \E id \in DOMAIN revived :
          /\ revived[id] = tracker.max_frames_lost
          /\ assignments = <<<<1, id>>>>
          /\ fresh = <<>>
          /\ tracker.tracks[id].frames_lost = 0
          /\ tracker.tracks[id].center = Center(detections[1])

\* C30: over an update() call, a track matched by the call holds the centre,
\* box and confidence of its detection; a track that was in the registry, was
\* not matched and is still there holds the centre, box and confidence it had;
\* and a track matched after a gap was matched on the centre it had kept:
\* its detection is strictly less than max_distance from it
C30_OnlyMatchedTracksMove ==
    [][\A id \in DOMAIN tracker.tracks \cap DOMAIN tracker'.tracks :
          IF \E k \in 1..Len(assignments') : assignments'[k][2] = id
          THEN \A k \in 1..Len(assignments') :
                  assignments'[k][2] = id =>
                      LET det == detections'[assignments'[k][1]]
                      IN /\ tracker'.tracks[id].center = Center(det)
                         /\ tracker'.tracks[id].bbox = BBox(det)
                         /\ tracker'.tracks[id].conf = det[5]
                         /\ SqDist(Center(det), tracker.tracks[id].center)
                                < tracker.max_distance * tracker.max_distance
          ELSE /\ tracker'.tracks[id].center = tracker.tracks[id].center
               /\ tracker'.tracks[id].bbox = tracker.tracks[id].bbox
               /\ tracker'.tracks[id].conf = tracker.tracks[id].conf
      ]_vars

\* one track came back after a gap on a detection's values while a second
\* track, unmatched by the call, still holds a centre far from that detection
C30_Witness ==
    /\ Len(detections) = 1
    /\ \E id \in DOMAIN revived, other \in DOMAIN tracker.tracks :
          /\ id # other
          /\ assignments = <<<<1, id>>>>
          /\ tracker.tracks[id].center = Center(detections[1])
          /\ tracker.tracks[id].bbox = BBox(detections[1])
          /\ tracker.tracks[id].conf = detections[1][5]
          /\ tracker.tracks[other].frames_lost >= 1
          /\ SqDist(Center(detections[1]), tracker.tracks[other].center)
                 > tracker.max_distance * tracker.max_distance

====
